---- MODULE Spec2Model ----
(***************************************************************************)
(* Model of wptrunner/executors/executormarionette.py (Python 2).          *)
(*                                                                         *)
(* One caller thread (the test runner) drives one executor serially:       *)
(* setup, do_test, is_alive, teardown.  The executor is the script-harness *)
(* one, the reference-test one (both over MarionetteProtocol) or the       *)
(* WebDriver one (over a local server process).  Every MarionetteRun.run() *)
(* starts one worker thread (_run) that it never joins.  The remote end    *)
(* (the                                                                    *)
(* Marionette client and the browser behind it) is the environment: it     *)
(* answers a call by returning, by raising, or not at all.                 *)
(*                                                                         *)
(* A thread whose pc names a remote call is blocked inside that call; the  *)
(* action of that name is the call ending together with the code that      *)
(* follows it up to the next remote call or shared-memory access.          *)
(***************************************************************************)
EXTENDS Integers, Sequences, FiniteSets

\* ------------------------------------------------------------------ bounds

\* MarionetteRun objects (hence worker threads) created in one behaviour.
MaxRuns == 2

\* test.timeout values (seconds) and timeout_multiplier values drawn from.
TestTimeouts == {10}
Multipliers == {2}

\* The widest test.timeout (seconds), the widest timeout_multiplier and the
\* longest screenshot string (in pieces) that the functions are applied to.
MaxTestTimeout == 12
MaxMultiplier == 4
MaxShotLen == 5

\* The polls of the port that one setup() makes in debug mode.
MaxPolls == 3

\* --------------------------------------------------------- program constants

\* extra_timeout = 5 # seconds
extra_timeout == 5

\* --------------------------------------------------------------- values

\* Python values are records tagged by t, so that any two can be compared.
None == [t |-> "None"]
\* testrunner.Stop, a sentinel object that is not iterable.
Stop == [t |-> "Stop"]
PyTrue == [t |-> "bool", v |-> TRUE]
PyFalse == [t |-> "bool", v |-> FALSE]
\* A string is a sequence of pieces.
Str(pieces) == [t |-> "str", v |-> pieces]
\* A value that is not a string (an int, a dict, None as a message).
NonStr == [t |-> "int", v |-> <<"5">>]
\* An exception instance: its class and its .message attribute.
Exc(cls, message) == [t |-> "exc", cls |-> cls, message |-> message]
\* The 2-tuple (success, data) that run() returns to do_test.
Tuple2(success, data) == [t |-> "tuple", success |-> success, data |-> data]
\* data of a failure: (status, detail).
Status(status, detail) == [t |-> "status", status |-> status, detail |-> detail]
\* What a remote call returns.
Payload(p) == [t |-> "payload", v |-> p]
Payloads == {Payload("p1"), Payload("p2")}
\* A remote call that returns nothing of interest.
OK == [t |-> "ok"]

\* The exception classes the code names, and the class each derives from.
\* socket.timeout derives from socket.error, which derives from IOError
\* since Python 2.6; the Marionette errors derive from MarionetteException.
Base(cls) ==
    CASE cls = "socket.timeout" -> "IOError"
      [] cls = "IOError" -> "Exception"
      [] cls = "InvalidResponseException" -> "MarionetteException"
      [] cls = "ScriptTimeoutException" -> "MarionetteException"
      [] cls = "MarionetteException" -> "Exception"
      [] cls = "AttributeError" -> "Exception"
      [] cls = "TypeError" -> "Exception"
      [] cls = "AssertionError" -> "Exception"
      [] cls = "KeyError" -> "Exception"
      [] cls = "ExecutorException" -> "Exception"
      [] cls = "OSError" -> "Exception"
      [] OTHER -> "object"

RECURSIVE IsSubclass(_, _)
IsSubclass(cls, of) ==
    IF cls = of THEN TRUE
    ELSE IF cls = "Exception" \/ cls = "object" THEN FALSE
    ELSE IsSubclass(Base(cls), of)

\* How a remote call can fail while the session is up.
RemoteErrors ==
    { Exc("IOError", Str(<<"broken pipe">>)),
      Exc("socket.timeout", Str(<<"timed out">>)),
      Exc("InvalidResponseException", Str(<<"bad packet">>)),
      Exc("ScriptTimeoutException", Str(<<"timed out">>)),
      Exc("MarionetteException", Str(<<"error">>)),
      Exc("KeyError", NonStr) }

\* How a remote call fails when there is no usable session behind it.
DeadErrors ==
    { Exc("IOError", Str(<<"broken pipe">>)),
      Exc("InvalidResponseException", Str(<<"bad packet">>)),
      Exc("MarionetteException", Str(<<"error">>)) }

IsExc(o) == o.t = "exc"

\* ---------------------------------------------------------------- state

VARIABLES
    executor,            \* the executor class in use: "testharness", "reftest"
                         \* or "webdriver"
    debug_args,          \* executor.debug_args: "None" or "set"
    close_after_done,    \* executor.close_after_done
    timeout_multiplier,  \* executor.timeout_multiplier
    pmarionette,         \* MarionetteProtocol.marionette: "None", "client", "deleted"
    conn,                \* the connection behind the client object
    page,                \* what the browser has loaded: "blank", "runner"
    sent,                \* messages sent to the runner, in order
    irx,                 \* what marionette.errors.InvalidResponseException is bound to
    pc,                  \* where the caller thread is
    ret,                 \* how the caller's last operation ended
    nruns,               \* MarionetteRun objects created so far
    runs,                \* the MarionetteRun objects and their worker threads
    has_window,          \* MarionetteRefTestExecutor.has_window
    windows,             \* windows the reftest driver script opened, still open
    context,             \* the session's current window: "runner", "test", "closed"
    driver               \* MarionetteWebDriverExecutor.driver and its process

vars == <<executor, debug_args, close_after_done, timeout_multiplier, pmarionette,
          conn, page, sent, irx, pc, ret, nruns, runs, has_window, windows, context,
          driver>>

config == <<executor, debug_args, close_after_done, timeout_multiplier>>
win == <<has_window, windows, context>>

RunIds == 1..MaxRuns

\* How an operation of the caller ended.
Returned(op, value) == [op |-> op, kind |-> "return", value |-> value]
Raised(op, exc) == [op |-> op, kind |-> "raise", value |-> exc]
\* The operation is still running.
Running(op) == [op |-> op, kind |-> "running", value |-> None]

\* What a remote call on the connection can answer now.
CallOutcomes(results) ==
    IF conn = "SessionActive" THEN results \cup RemoteErrors ELSE DeadErrors

\* The same for a call that acts on the current window, which may be closed.
WindowCallOutcomes(results) ==
    IF context = "closed" THEN DeadErrors ELSE CallOutcomes(results)

\* MarionetteRun.__init__; timeout is None or a number of seconds.
NoTimeout == -1
NewRun(timeout) ==
    [ timeout |-> timeout,
      result |-> None,
      result_flag |-> FALSE,
      script_timeout |-> NoTimeout,
      wait_timeout |-> NoTimeout,
      flag |-> FALSE,
      wpc |-> "unstarted",
      wout |-> None,
      st_exc |-> None,
      shot |-> None,
      recorded_timeout |-> FALSE ]

\* A MarionetteRun object whose run() has returned and that a later run()
\* has replaced: only its own thread still refers to it, nothing reads its
\* fields again, and it is gone when the thread ends (or never started).
\* What is kept of it is where its thread is.
Collected == [NewRun(NoTimeout) EXCEPT !.wpc = "collected"]
Collect(rs, last) ==
    [r \in RunIds |->
        IF r >= last THEN rs[r]
        ELSE IF rs[r].wpc \in {"done", "unstarted", "collected"} THEN Collected
        ELSE [Collected EXCEPT !.wpc = rs[r].wpc]]

\* MarionetteWebDriverExecutor.__init__, line 323: no driver object yet.  obj
\* is what self.driver holds and proc is the process behind it; stop_called
\* and base_teardown tell what the teardown() running or last made has done.
NoDriver ==
    [obj |-> "None", proc |-> "none", stop_called |-> FALSE, base_teardown |-> FALSE]

Init ==
    /\ executor \in {"testharness", "reftest", "webdriver"}
    /\ driver = NoDriver
    /\ has_window = FALSE
    /\ windows = 0
    /\ context = "runner"
    /\ debug_args \in {"None", "set"}
    /\ close_after_done \in BOOLEAN
    /\ timeout_multiplier \in Multipliers
    /\ pmarionette = "None"
    /\ conn = "Disconnected"
    /\ page = "blank"
    /\ sent = <<>>
    /\ irx = "class"
    /\ pc = "idle"
    /\ ret = Returned("__init__", None)
    /\ nruns = 0
    /\ runs = [r \in RunIds |-> NewRun(NoTimeout)]

\* ------------------------------------------------- MarionetteProtocol.setup

\* setup(), lines 59-67: a new client object; nothing is connected yet.
setup ==
    /\ pc = "idle"
    /\ executor # "webdriver"
    /\ pmarionette = "None"
    /\ pmarionette' = "client"
    /\ conn' = "Disconnected"
    /\ pc' = "wait_for_port"
    /\ ret' = [Running("setup") EXCEPT !.value = <<>>]
    /\ UNCHANGED <<config, driver, win, page, sent, irx, nruns, runs>>

\* While setup() runs, and after it returned, the value of ret is the list
\* of the calls it made on the client so far, each with whether it returned
\* (ok) or failed.
Called(r, call, ok) == [r EXCEPT !.value = Append(@, [call |-> call, ok |-> ok])]
\* setup() returns.
setup_returns(r) == [r EXCEPT !.kind = "return"]

\* Lines 68-72 with a loop that is left after the first poll in any mode.
wait_loop_exits_at_once(success) == TRUE

\* The loop condition of lines 68-72: leave the loop?
wait_loop_exits(success) == success \/ debug_args = "None"

\* Lines 85-87: the message for a connection or session failure.
connect_failed_message == <<"init_failed">>

\* Lines 68-75 and, when the port never opened, 85-87.
wait_for_port ==
    /\ pc = "wait_for_port"
    /\ \E success \in BOOLEAN :
        LET r == Called(ret, "wait_for_port", success) IN
        /\ conn' = IF success THEN "Connected-NoSession" ELSE conn
        /\ IF ~wait_loop_exits(success)
           THEN /\ Len(r.value) < MaxPolls
                /\ pc' = pc
                /\ ret' = r
                /\ UNCHANGED sent
           ELSE IF success
           THEN /\ pc' = "start_session"
                /\ ret' = r
                /\ UNCHANGED sent
           ELSE /\ sent' = sent \o connect_failed_message
                /\ ret' = setup_returns(r)
                /\ pc' = "idle"
    /\ UNCHANGED <<config, driver, win, pmarionette, page, irx, nruns, runs>>

\* Lines 76-87: start_session() returns or raises.
start_session ==
    /\ pc = "start_session"
    /\ \E o \in {OK} \cup DeadErrors :
        LET r == Called(ret, "start_session", ~IsExc(o)) IN
        IF IsExc(o)
        THEN /\ sent' = sent \o connect_failed_message
             /\ ret' = setup_returns(r)
             /\ pc' = "idle"
             /\ UNCHANGED conn
        ELSE /\ conn' = "SessionActive"
             /\ pc' = "navigate"
             /\ ret' = r
             /\ UNCHANGED sent
    /\ UNCHANGED <<config, driver, win, pmarionette, page, irx, nruns, runs>>

\* after_connect(), lines 119-126: does a failed navigate() end the hook?
navigate_propagates(o) == FALSE

\* Lines 89-96 without the except clause: a hook that raises sends nothing.
hook_message_uncaught(o) ==
    IF IsExc(o) THEN <<>> ELSE <<"init_succeeded">>

\* Lines 89-96: the message for how after_connect() ended.
hook_message(o) ==
    IF IsExc(o) THEN <<"init_failed">> ELSE <<"init_succeeded">>

\* after_connect(), lines 116-126: navigate() to the runner page ends.
navigate ==
    /\ pc = "navigate"
    /\ \E o \in CallOutcomes({OK}) :
        LET r == Called(ret, "navigate", ~IsExc(o)) IN
        /\ page' = IF IsExc(o) THEN page ELSE "runner"
        /\ IF IsExc(o) /\ navigate_propagates(o)
           THEN /\ sent' = sent \o hook_message(o)
                /\ ret' = setup_returns(r)
                /\ pc' = "idle"
           ELSE /\ pc' = "execute_script_title"
                /\ ret' = r
                /\ UNCHANGED sent
    /\ UNCHANGED <<config, driver, win, pmarionette, conn, irx, nruns, runs>>

\* after_connect(), lines 127-128, then setup(), lines 91-96.
execute_script_title ==
    /\ pc = "execute_script_title"
    /\ \E o \in CallOutcomes({OK}) :
        /\ sent' = sent \o hook_message(o)
        /\ ret' = setup_returns(Called(ret, "execute_script", ~IsExc(o)))
    /\ pc' = "idle"
    /\ UNCHANGED <<config, driver, win, pmarionette, conn, page, irx, nruns, runs>>

\* ---------------------------------------------- MarionetteProtocol.teardown

\* Line 104, del self.marionette: raises when the attribute is already gone.
del_marionette(pm) ==
    IF pm = "deleted"
    THEN Raised("teardown", Exc("AttributeError", Str(<<"marionette">>)))
    ELSE Returned("teardown", None)

\* teardown(), line 100: with a client object delete_session() is a remote
\* call; without one the attribute access raises AttributeError, which line
\* 101 swallows, and line 104 follows at once.
teardown ==
    /\ pc = "idle"
    /\ executor # "webdriver"
    /\ IF pmarionette = "client"
       THEN /\ pc' = "delete_session"
            /\ ret' = Running("teardown")
            /\ UNCHANGED pmarionette
       ELSE /\ ret' = del_marionette(pmarionette)
            /\ pmarionette' = "deleted"
            /\ pc' = pc
    /\ UNCHANGED <<config, driver, win, conn, page, sent, irx, nruns, runs>>

\* Lines 100-104: delete_session() returns or raises; either way line 104.
delete_session ==
    /\ pc = "delete_session"
    /\ \E o \in CallOutcomes({OK}) :
        conn' = IF IsExc(o) THEN conn ELSE "Disconnected"
    /\ ret' = del_marionette(pmarionette)
    /\ pmarionette' = "deleted"
    /\ pc' = "idle"
    /\ UNCHANGED <<config, driver, win, page, sent, irx, nruns, runs>>

\* ----------------------------------------------- MarionetteProtocol.is_alive

\* Lines 108-113 with an except clause that names IOError alone.
is_alive_result_ioerror(o) ==
    IF IsExc(o) /\ IsSubclass(o.cls, "IOError") THEN PyFalse ELSE PyTrue

\* Lines 108-113: the value for how reading current_window_handle ended.
is_alive_result(o) == IF IsExc(o) THEN PyFalse ELSE PyTrue

\* is_alive() returns; probe is how the read of line 110 ended.
is_alive_returns(o) ==
    [op |-> "is_alive", kind |-> "return", value |-> is_alive_result(o), probe |-> o]

\* is_alive(), line 110: with a client object the property read is a remote
\* call; without one it raises AttributeError.
is_alive ==
    /\ pc = "idle"
    /\ executor # "webdriver"
    /\ IF pmarionette = "client"
       THEN /\ pc' = "current_window_handle"
            /\ ret' = Running("is_alive")
       ELSE /\ ret' = is_alive_returns(Exc("AttributeError", Str(<<"marionette">>)))
            /\ pc' = pc
    /\ UNCHANGED <<config, driver, win, pmarionette, conn, page, sent, irx, nruns, runs>>

\* Lines 110-113: the property read returns or raises.
current_window_handle ==
    /\ pc = "current_window_handle"
    /\ \E o \in CallOutcomes({OK}) :
        ret' = is_alive_returns(o)
    /\ pc' = "idle"
    /\ UNCHANGED <<config, driver, win, pmarionette, conn, page, sent, irx, nruns, runs>>

\* The run() in progress or last made.
cur == nruns

\* Line 150: 2**31 - 1, written so that no intermediate value leaves 32 bits.
max_script_timeout == (2^30 - 1) + 2^30

\* Lines 144-150 with the remote timeout as late as the wait bound.
script_timeout_ms_late(timeout) ==
    IF timeout # NoTimeout THEN (timeout + 2 * extra_timeout) * 1000
    ELSE max_script_timeout

\* Lines 144-150: the argument of set_script_timeout().
script_timeout_ms(timeout) ==
    IF timeout # NoTimeout THEN (timeout + extra_timeout) * 1000
    ELSE max_script_timeout

\* Lines 158-161 with a bound computed for every timeout, None included.
wait_bound_always(timeout) ==
    IF timeout # NoTimeout THEN timeout + 2 * extra_timeout ELSE 2 * extra_timeout

\* Lines 158-161: the bound of the wait.
wait_bound(timeout) ==
    IF timeout # NoTimeout THEN timeout + 2 * extra_timeout ELSE NoTimeout

\* Line 151, "except IOError, marionette.errors.InvalidResponseException:".
\* In Python 2 this catches IOError alone and binds the instance caught to
\* the name after the comma.
run_catches(cls) == IsSubclass(cls, "IOError")

\* Line 153: what run() returns once the connection is found lost.
lost_connection_result == Stop

\* base.py, convert_result for testharness tests: the payload becomes the
\* harness's result and subtest list.
convert_result(data) ==
    [t |-> "result", status |-> "OK", message |-> None, subtests |-> <<data.v>>]

\* do_test(), lines 215-223, from the value run() returned.  Unpacking
\* anything but a 2-tuple raises TypeError.
do_test_result(v) ==
    IF v.t # "tuple"
    THEN Raised("do_test", Exc("TypeError", Str(<<"object is not iterable">>)))
    ELSE IF v.success
    THEN Returned("do_test", convert_result(v.data))
    ELSE Returned("do_test", [t |-> "result", status |-> v.data.status,
                              message |-> v.data.detail, subtests |-> <<>>])

\* base.py, RefTestImplementation.run_test and convert_result for reftests,
\* from the value screenshot() returned: unpacked as (success, data); a
\* failure gives its status and message, a screenshot is compared.
reftest_result(v) ==
    IF v.t # "tuple"
    THEN Raised("do_test", Exc("TypeError", Str(<<"object is not iterable">>)))
    ELSE IF v.success
    THEN Returned("do_test", [t |-> "result", status |-> "PASS", message |-> None,
                              subtests |-> <<>>])
    ELSE Returned("do_test", [t |-> "result", status |-> v.data.status,
                              message |-> v.data.detail, subtests |-> <<>>])

\* run() returns v to the do_test() that called it.
run_returns(v) ==
    IF executor = "testharness" THEN do_test_result(v) ELSE reftest_result(v)

\* The session is set up and the runner was told so.
Ready == pmarionette = "client" /\ sent = <<"init_succeeded">>

\* The first remote call of the worker: do_testharness(), lines 226-227, or
\* _screenshot(), line 295.
first_call ==
    IF executor = "reftest" THEN "navigate_url"
    ELSE IF close_after_done THEN "execute_script" ELSE "execute_async_script"

\* The timeout handed to MarionetteRun: lines 213-214 and 284.
run_timeout(tt) ==
    IF debug_args = "None" THEN tt * timeout_multiplier ELSE NoTimeout

\* -------------------------------- MarionetteTestharnessExecutor.do_test

\* do_test(), lines 213-219, and run() up to the call of line 145 or 150.
do_test ==
    /\ pc = "idle"
    /\ Ready
    /\ executor = "testharness"
    /\ nruns < MaxRuns
    /\ \E tt \in TestTimeouts :
        runs' = Collect([runs EXCEPT ![nruns + 1] = NewRun(run_timeout(tt))],
                        nruns + 1)
    /\ nruns' = nruns + 1
    /\ pc' = "set_script_timeout"
    /\ ret' = Running("do_test")
    /\ UNCHANGED <<config, driver, win, pmarionette, conn, page, sent, irx>>

\* ------------------------------------- MarionetteRefTestExecutor.do_test

\* A remote call of do_test() raised: nothing catches it.
do_test_raises(o) ==
    /\ ret' = Raised("do_test", o)
    /\ pc' = "idle"

\* Lines 268 and 274: which call do_test() makes first.  When the window is
\* kept, run_test() goes straight to screenshot() and run().
reftest_first_call ==
    IF close_after_done /\ has_window THEN "close"
    ELSE IF ~has_window THEN "inject_script"
    ELSE "set_script_timeout"

\* do_test(), lines 267-268 and 274.
reftest_do_test ==
    /\ pc = "idle"
    /\ Ready
    /\ executor = "reftest"
    /\ nruns < MaxRuns
    /\ \E tt \in TestTimeouts :
        runs' = Collect([runs EXCEPT ![nruns + 1] = NewRun(run_timeout(tt))],
                        nruns + 1)
    /\ nruns' = nruns + 1
    /\ pc' = reftest_first_call
    /\ ret' = Running("do_test")
    /\ UNCHANGED <<config, driver, win, pmarionette, conn, page, sent, irx>>

\* Line 269: close() of the current window returns or raises.
close ==
    /\ pc = "close"
    /\ \E o \in WindowCallOutcomes({OK}) :
        IF IsExc(o)
        THEN /\ do_test_raises(o)
             /\ UNCHANGED <<windows, context>>
        ELSE /\ windows' = IF context = "test" THEN windows - 1 ELSE windows
             /\ context' = "closed"
             /\ pc' = "window_handles_closed"
             /\ UNCHANGED ret
    /\ UNCHANGED <<config, driver, has_window, pmarionette, conn, page, sent, irx, nruns, runs>>

\* Lines 271 and 276: the read of window_handles returns or raises.
window_handles ==
    /\ pc \in {"window_handles_closed", "window_handles_opened"}
    /\ \E o \in CallOutcomes({OK}) :
        IF IsExc(o)
        THEN do_test_raises(o)
        ELSE /\ pc' = IF pc = "window_handles_closed" THEN "switch_to_window_closed"
                                                     ELSE "switch_to_window_opened"
             /\ UNCHANGED ret
    /\ UNCHANGED <<config, driver, win, pmarionette, conn, page, sent, irx, nruns, runs>>

\* The window that window_handles[-1] names: the one opened last.
last_window == IF windows > 0 THEN "test" ELSE "runner"

\* Lines 270-274: switch_to_window() after close() returns or raises.
switch_to_window_closed ==
    /\ pc = "switch_to_window_closed"
    /\ \E o \in CallOutcomes({OK}) :
        IF IsExc(o)
        THEN /\ do_test_raises(o)
             /\ UNCHANGED <<has_window, context>>
        ELSE /\ context' = last_window
             /\ has_window' = FALSE
             /\ pc' = "inject_script"
             /\ UNCHANGED ret
    /\ UNCHANGED <<config, driver, windows, pmarionette, conn, page, sent, irx, nruns, runs>>

\* Line 275: execute_script() of the driver script, which opens a window.
inject_script ==
    /\ pc = "inject_script"
    /\ \E o \in WindowCallOutcomes({OK}) :
        IF IsExc(o)
        THEN /\ do_test_raises(o)
             /\ UNCHANGED windows
        ELSE /\ windows' = windows + 1
             /\ pc' = "window_handles_opened"
             /\ UNCHANGED ret
    /\ UNCHANGED <<config, driver, has_window, context, pmarionette, conn, page, sent, irx,
                   nruns, runs>>

\* Lines 276-279: switch_to_window() returns or raises; when it returns,
\* run_test() calls screenshot(), which calls run().
switch_to_window_opened ==
    /\ pc = "switch_to_window_opened"
    /\ \E o \in CallOutcomes({OK}) :
        IF IsExc(o)
        THEN /\ do_test_raises(o)
             /\ UNCHANGED <<has_window, context>>
        ELSE /\ context' = last_window
             /\ has_window' = TRUE
             /\ pc' = "set_script_timeout"
             /\ UNCHANGED ret
    /\ UNCHANGED <<config, driver, windows, pmarionette, conn, page, sent, irx, nruns, runs>>

\* ------------------------------------------------------ MarionetteRun.run

\* run(), lines 143-161: set_script_timeout() returns or raises; when it
\* returns the worker thread is started and the caller enters the wait.
set_script_timeout ==
    /\ pc = "set_script_timeout"
    /\ \E o \in CallOutcomes({OK}) :
        IF ~IsExc(o)
        THEN /\ runs' = [runs EXCEPT ![cur].script_timeout = script_timeout_ms(runs[cur].timeout),
                                     ![cur].wait_timeout = wait_bound(runs[cur].timeout),
                                     ![cur].wpc = first_call]
             /\ pc' = "wait"
             /\ UNCHANGED <<irx, ret>>
        ELSE IF run_catches(o.cls)
        THEN /\ irx' = "instance"
             /\ runs' = [runs EXCEPT ![cur].st_exc = o]
             /\ ret' = run_returns(lost_connection_result)
             /\ pc' = "idle"
        ELSE /\ runs' = [runs EXCEPT ![cur].st_exc = o]
             /\ ret' = Raised("do_test", o)
             /\ pc' = "idle"
             /\ UNCHANGED irx
    /\ UNCHANGED <<config, driver, win, pmarionette, conn, page, sent, nruns>>

\* Line 163: result_flag.wait() returns because the flag is set.
wait_signalled ==
    /\ pc = "wait"
    /\ runs[cur].result_flag
    /\ runs' = [runs EXCEPT ![cur].flag = TRUE]
    /\ pc' = "check_result"
    /\ UNCHANGED <<config, driver, win, pmarionette, conn, page, sent, irx, ret, nruns>>

\* Line 163: result_flag.wait(wait_timeout) returns because the bound elapsed.
wait_timed_out ==
    /\ pc = "wait"
    /\ runs[cur].wait_timeout # NoTimeout
    /\ ~runs[cur].result_flag
    /\ runs' = [runs EXCEPT ![cur].flag = FALSE]
    /\ pc' = "check_result"
    /\ UNCHANGED <<config, driver, win, pmarionette, conn, page, sent, irx, ret, nruns>>

\* Lines 164-166: the read of self.result and the assertion.
check_result ==
    /\ pc = "check_result"
    /\ IF runs[cur].result # None
       THEN /\ pc' = "return_result"
            /\ UNCHANGED ret
       ELSE IF runs[cur].flag
       THEN /\ ret' = Raised("do_test", Exc("AssertionError", Str(<<>>)))
            /\ pc' = "idle"
       ELSE /\ pc' = "write_timeout"
            /\ UNCHANGED ret
    /\ UNCHANGED <<config, driver, win, pmarionette, conn, page, sent, irx, nruns, runs>>

\* The outcome lines 167 and 176 record.
timeout_outcome == Tuple2(FALSE, Status("EXTERNAL-TIMEOUT", None))

\* Line 167: the timeout is stored in self.result.
write_timeout ==
    /\ pc = "write_timeout"
    /\ runs' = [runs EXCEPT ![cur].result = timeout_outcome,
                            ![cur].recorded_timeout = TRUE]
    /\ pc' = "return_result"
    /\ UNCHANGED <<config, driver, win, pmarionette, conn, page, sent, irx, ret, nruns>>

\* Line 169, the read of self.result that run() returns, and do_test() to
\* its end, lines 220-223.
return_result ==
    /\ pc = "return_result"
    /\ ret' = run_returns(runs[cur].result)
    /\ pc' = "idle"
    /\ UNCHANGED <<config, driver, win, pmarionette, conn, page, sent, irx, nruns, runs>>

\* ----------------------------------------------------- MarionetteRun._run

\* Line 177: does the clause catch the class?  The tuple's second member is
\* whatever marionette.errors.InvalidResponseException is bound to by now;
\* an instance in that place matches nothing.
crash_clause_catches(cls, binding) ==
    \/ IsSubclass(cls, "socket.timeout")
    \/ binding = "class" /\ IsSubclass(cls, "InvalidResponseException")
    \/ IsSubclass(cls, "IOError")

\* Lines 183-186: the message built for an unexpected exception.  Adding a
\* string to a message that is not one raises TypeError.
format_message(e) ==
    Str((IF e.message.v # <<>> THEN e.message.v \o <<"\n">> ELSE <<>>)
        \o <<"Traceback">>)
format_raises(e) == e.message.t # "str"

\* Lines 172-187: what _run() stores in self.result for how func ended;
\* None stands for no store, when the handler itself raised.
_run_result(o, binding) ==
    IF ~IsExc(o) THEN Tuple2(TRUE, o)
    ELSE IF IsSubclass(o.cls, "ScriptTimeoutException") THEN timeout_outcome
    ELSE IF crash_clause_catches(o.cls, binding)
    THEN Tuple2(FALSE, Status("CRASH", None))
    ELSE IF format_raises(o) THEN None
    ELSE Tuple2(FALSE, Status("ERROR", o))

\* The stores of _run() written to one slot that every run() shares.
result_slot_shared(r) == nruns

\* Lines 173-187, self.result: the slot worker r stores into is that of the
\* MarionetteRun object it was started on.
result_slot(r) == r

\* Lines 173-187: func ended as o, and the store into self.result follows.
\* No other thread can tell the end of the call from the store, so the two
\* are one step.
func_ends(rs, r, o) ==
    LET v == _run_result(o, irx) IN
    [rs EXCEPT ![result_slot(r)].result = IF v = None THEN @ ELSE v,
               ![r].wout = o,
               ![r].wpc = "finally"]

\* do_testharness(), line 227: the script closing the old window ends.
execute_script(r) ==
    /\ runs[r].wpc = "execute_script"
    /\ \E o \in CallOutcomes({OK}) :
        runs' = IF IsExc(o)
                THEN Collect(func_ends(runs, r, o), nruns)
                ELSE [runs EXCEPT ![r].wpc = "execute_async_script"]
    /\ UNCHANGED <<config, driver, win, pmarionette, conn, page, sent, irx, pc, ret, nruns>>

\* do_testharness(), line 241: the test script ends.
execute_async_script(r) ==
    /\ runs[r].wpc = "execute_async_script"
    /\ \E o \in CallOutcomes(Payloads) :
        runs' = Collect(func_ends(runs, r, o), nruns)
    /\ UNCHANGED <<config, driver, win, pmarionette, conn, page, sent, irx, pc, ret, nruns>>

\* Line 303, the literal "data:image/png;base64,": a string is a sequence
\* of pieces, and the literal is two of them, the comma being the second.
data_uri_prefix == <<"data:image/png;base64", ",">>

\* A screenshot as the client returns it.
Screenshots ==
    { Str(data_uri_prefix \o <<"AAAA">>), Str(<<"BBBB">>) }

\* str.startswith.
startswith(pieces, prefix) ==
    /\ Len(pieces) >= Len(prefix)
    /\ SubSeq(pieces, 1, Len(prefix)) = prefix

\* Line 304, split(",", 1)[1]: what follows the first comma.
RECURSIVE after_first_comma(_)
after_first_comma(pieces) ==
    IF pieces = <<>> THEN <<>>
    ELSE IF Head(pieces) = "," THEN Tail(pieces)
    ELSE after_first_comma(Tail(pieces))

\* Lines 303-304 without the test of line 303.
strip_prefix_always(shot) == Str(after_first_comma(shot.v))

\* Lines 303-304.
strip_prefix(shot) ==
    IF startswith(shot.v, data_uri_prefix)
    THEN Str(after_first_comma(shot.v))
    ELSE shot

\* Lines 294-297.  The parameter named marionette hides the module, so the
\* except clause looks up .errors on the client object.  When the object has
\* no such attribute AttributeError leaves the function whatever navigate()
\* raised; when it has, a MarionetteException becomes ExecutorException and
\* anything else passes through.
navigate_errors(o) ==
    { Exc("AttributeError", Str(<<"errors">>)),
      IF IsSubclass(o.cls, "MarionetteException")
      THEN Exc("ExecutorException", Str(<<"Failed to load url">>))
      ELSE o }

\* _screenshot(), lines 293-297: navigate() to the test returns or raises.
navigate_url(r) ==
    /\ runs[r].wpc = "navigate_url"
    /\ \E o \in WindowCallOutcomes({OK}) :
        IF IsExc(o)
        THEN \E e \in navigate_errors(o) :
                runs' = Collect(func_ends(runs, r, e), nruns)
        ELSE runs' = [runs EXCEPT ![r].wpc = "wait_script"]
    /\ UNCHANGED <<config, driver, win, pmarionette, conn, page, sent, irx, pc, ret, nruns>>

\* _screenshot(), line 299: the wait script ends.
wait_script(r) ==
    /\ runs[r].wpc = "wait_script"
    /\ \E o \in WindowCallOutcomes({OK}) :
        runs' = IF IsExc(o)
                THEN Collect(func_ends(runs, r, o), nruns)
                ELSE [runs EXCEPT ![r].wpc = "screenshot"]
    /\ UNCHANGED <<config, driver, win, pmarionette, conn, page, sent, irx, pc, ret, nruns>>

\* _screenshot(), lines 301-306: screenshot() ends as one of outcomes; the
\* string it returned is kept in shot.
screenshot_ends(r, outcomes) ==
    /\ runs[r].wpc = "screenshot"
    /\ \E o \in outcomes :
        runs' = Collect(func_ends([runs EXCEPT ![r].shot = IF IsExc(o) THEN None ELSE o],
                                  r, IF IsExc(o) THEN o ELSE strip_prefix(o)),
                        nruns)
    /\ UNCHANGED <<config, driver, win, pmarionette, conn, page, sent, irx, pc, ret, nruns>>

\* _screenshot(), lines 301-306: screenshot() returns or raises.
screenshot(r) == screenshot_ends(r, WindowCallOutcomes(Screenshots))

\* Lines 189-190: the flag is set and the thread ends.
finally(r) ==
    /\ runs[r].wpc = "finally"
    /\ runs' = Collect([runs EXCEPT ![r].result_flag = TRUE, ![r].wpc = "done"],
                       nruns)
    /\ UNCHANGED <<config, driver, win, pmarionette, conn, page, sent, irx, pc, ret, nruns>>

\* ------------------------------------------- MarionetteWebDriverExecutor

\* How starting or stopping the local server process can fail.
ProcessErrors == { Exc("OSError", Str(<<"errno">>)) }

\* setup(), lines 327-335: the base setup, a new WiresLocalServer, and the
\* call of driver.start().
webdriver_setup ==
    /\ pc = "idle"
    /\ executor = "webdriver"
    /\ driver.obj = "None"
    /\ driver' = [driver EXCEPT !.obj = "WiresLocalServer"]
    /\ pc' = "driver_start"
    /\ ret' = Running("webdriver_setup")
    /\ UNCHANGED <<config, win, pmarionette, conn, page, sent, irx, nruns, runs>>

\* Lines 334-341 with the two messages exchanged.
start_message_swapped(o) ==
    IF IsExc(o) /\ IsSubclass(o.cls, "Exception")
    THEN <<"init_succeeded">> ELSE <<"init_failed">>

\* Lines 334-341: the message for how driver.start() ended.
start_message(o) ==
    IF IsExc(o) /\ IsSubclass(o.cls, "Exception")
    THEN <<"init_failed">> ELSE <<"init_succeeded">>

\* Lines 335-341: driver.start() returns or raises.
driver_start ==
    /\ pc = "driver_start"
    /\ \E o \in {OK} \cup ProcessErrors :
        /\ driver' = [driver EXCEPT !.proc = IF IsExc(o) THEN "failed" ELSE "running"]
        /\ sent' = sent \o start_message(o)
    /\ ret' = Returned("webdriver_setup", None)
    /\ pc' = "idle"
    /\ UNCHANGED <<config, win, pmarionette, conn, page, irx, nruns, runs>>

\* executorwebdriver.py, WebDriverTestExecutor.teardown: the base teardown runs.
base_teardown(d) == [d EXCEPT !.base_teardown = TRUE]

\* teardown(), lines 344-347: with a driver object driver.stop() is called;
\* without one line 347 follows at once.
webdriver_teardown ==
    /\ pc = "idle"
    /\ executor = "webdriver"
    /\ IF driver.obj # "None"
       THEN /\ driver' = [driver EXCEPT !.stop_called = FALSE, !.base_teardown = FALSE]
            /\ pc' = "driver_stop"
            /\ ret' = Running("webdriver_teardown")
       ELSE /\ driver' = base_teardown([driver EXCEPT !.stop_called = FALSE])
            /\ pc' = pc
            /\ ret' = Returned("webdriver_teardown", None)
    /\ UNCHANGED <<config, win, pmarionette, conn, page, sent, irx, nruns, runs>>

\* Lines 346-347: driver.stop() returns or raises.  Nothing catches what it
\* raises, so line 347 is reached only when it returns.
driver_stop ==
    /\ pc = "driver_stop"
    /\ \E o \in {OK} \cup ProcessErrors :
        IF IsExc(o)
        THEN /\ driver' = [driver EXCEPT !.stop_called = TRUE]
             /\ ret' = Raised("webdriver_teardown", o)
        ELSE /\ driver' = base_teardown([driver EXCEPT !.stop_called = TRUE,
                                                       !.proc = "stopped"])
             /\ ret' = Returned("webdriver_teardown", None)
    /\ pc' = "idle"
    /\ UNCHANGED <<config, win, pmarionette, conn, page, sent, irx, nruns, runs>>

\* is_alive(), lines 349-350: the answer of the driver's own probe; without
\* a driver object the attribute access raises.
webdriver_is_alive ==
    /\ pc = "idle"
    /\ executor = "webdriver"
    /\ ret' = IF driver.obj = "None"
              THEN Raised("webdriver_is_alive", Exc("AttributeError", Str(<<"is_alive">>)))
              ELSE Returned("webdriver_is_alive",
                            IF driver.proc = "running" THEN PyTrue ELSE PyFalse)
    /\ UNCHANGED <<config, driver, win, pmarionette, conn, page, sent, irx, pc, nruns,
                   runs>>

\* ------------------------------------------------------------ environment

\* The browser or the transport dies.
Crash ==
    /\ conn = "SessionActive"
    /\ conn' = "Lost"
    /\ UNCHANGED <<config, driver, win, pmarionette, page, sent, irx, pc, ret, nruns, runs>>

Next ==
    \/ setup
    \/ wait_for_port
    \/ start_session
    \/ navigate
    \/ execute_script_title
    \/ is_alive
    \/ current_window_handle
    \/ teardown
    \/ delete_session
    \/ do_test
    \/ reftest_do_test
    \/ close
    \/ window_handles
    \/ switch_to_window_closed
    \/ inject_script
    \/ switch_to_window_opened
    \/ set_script_timeout
    \/ wait_signalled
    \/ wait_timed_out
    \/ check_result
    \/ write_timeout
    \/ return_result
    \/ \E r \in RunIds : execute_script(r)
    \/ \E r \in RunIds : execute_async_script(r)
    \/ \E r \in RunIds : navigate_url(r)
    \/ \E r \in RunIds : wait_script(r)
    \/ \E r \in RunIds : screenshot(r)
    \/ \E r \in RunIds : finally(r)
    \/ webdriver_setup
    \/ driver_start
    \/ webdriver_teardown
    \/ driver_stop
    \/ webdriver_is_alive
    \/ Crash

Spec == Init /\ [][Next]_vars

\* ------------------------------------------- the functions on wider inputs

\* Every string of at most MaxShotLen pieces, pieces of the prefix included.
RECURSIVE StringsOf(_)
StringsOf(n) ==
    IF n = 0 THEN {<<>>}
    ELSE LET shorter == StringsOf(n - 1) IN
         shorter \cup {Append(x, c) : x \in shorter,
                                      c \in {"data:image/png;base64", ",", "AAAA"}}
AllScreenshots == {Str(x) : x \in StringsOf(MaxShotLen)}

\* A do_test() under way on a session that is set up, for any test timeout
\* and any multiplier: the script-harness executor is about to call
\* set_script_timeout(), and the worker of the reference-test executor is
\* inside marionette.screenshot().
FunctionInit ==
    /\ executor \in {"testharness", "reftest"}
    /\ debug_args \in {"None", "set"}
    /\ close_after_done \in BOOLEAN
    /\ timeout_multiplier \in 1..MaxMultiplier
    /\ driver = NoDriver
    /\ pmarionette = "client"
    /\ conn = "SessionActive"
    /\ page = "runner"
    /\ sent = <<"init_succeeded">>
    /\ irx = "class"
    /\ ret = Running("do_test")
    /\ nruns = 1
    /\ has_window = (executor = "reftest")
    /\ windows = IF executor = "reftest" THEN 1 ELSE 0
    /\ context = IF executor = "reftest" THEN "test" ELSE "runner"
    /\ pc = IF executor = "reftest" THEN "wait" ELSE "set_script_timeout"
    /\ \E tt \in 1..MaxTestTimeout :
        LET new == NewRun(run_timeout(tt)) IN
        runs = [r \in RunIds |->
                   IF r # 1 THEN NewRun(NoTimeout)
                   ELSE IF executor = "reftest"
                   THEN [new EXCEPT !.script_timeout = script_timeout_ms(new.timeout),
                                    !.wait_timeout = wait_bound(new.timeout),
                                    !.wpc = "screenshot"]
                   ELSE new]

\* _screenshot(), lines 301-306: screenshot() returns any string.
screenshot_any(r) == screenshot_ends(r, AllScreenshots)

FunctionNext ==
    \/ set_script_timeout
    \/ \E r \in RunIds : screenshot_any(r)

FunctionSpec == FunctionInit /\ [][FunctionNext]_vars

\* The threads are scheduled: a thread that can take a step of its own code
\* takes it, and a bounded wait ends.  Nothing makes the remote end answer.
FairSpec ==
    /\ Spec
    /\ WF_vars(wait_signalled \/ wait_timed_out)
    /\ WF_vars(check_result)
    /\ WF_vars(write_timeout)
    /\ WF_vars(return_result)
    /\ \A r \in RunIds : WF_vars(finally(r))

\* ------------------------------------------------------------------ claims

\* The caller is inside MarionetteRun.run().
InRun == pc \in {"set_script_timeout", "wait", "check_result", "write_timeout",
                 "return_result"}

\* The caller's last operation was do_test() and it has ended.
DoTestEnded == pc = "idle" /\ ret.op = "do_test"

\* C1: for every deadline that is not None, a run() that has begun
\* eventually returns to its caller, whether or not the remote end answers
\* the calls made for it.
C1_RunReturns ==
    (InRun /\ runs[cur].timeout # NoTimeout) ~> (pc = "idle")

\* Once the worker is started and the wait of line 163 is entered with a
\* bound, run() does return.
C1_WaitEnds ==
    (pc = "wait" /\ runs[cur].timeout # NoTimeout) ~> (pc = "idle")

\* C2: once the wait ended because the bound elapsed, what do_test() gets
\* from run() is the timeout outcome, and a timeout recorded in the result
\* slot stays there whatever the worker does later.
C2_TimeoutIsFinal ==
    /\ (DoTestEnded /\ ret.kind = "return" /\ ~runs[cur].flag)
            => ret.value.status = "EXTERNAL-TIMEOUT"
    /\ \A r \in RunIds : runs[r].recorded_timeout => runs[r].result = timeout_outcome

\* C3: a setup() that is running has sent nothing yet, and a setup() that
\* has returned sent exactly one message, init_failed when the port never
\* opened or the session did not start.
SetupRunning ==
    pc \in {"wait_for_port", "start_session", "navigate", "execute_script_title"}
C3_ExactlyOneMessage ==
    /\ Len(sent) <= 1
    /\ SetupRunning => sent = <<>>
    /\ (pc = "idle" /\ ret.op = "setup") =>
            /\ ret.kind = "return"
            /\ sent \in {<<"init_succeeded">>, <<"init_failed">>}
            /\ conn \in {"Disconnected", "Connected-NoSession"}
                    => sent = <<"init_failed">>
\* The post-connect hook threw and setup() reported it.
C3_Witness ==
    /\ pc = "idle" /\ ret.op = "setup"
    /\ conn = "SessionActive"
    /\ sent = <<"init_failed">>

\* C4: do_test() ends by returning a result, never by raising, however the
\* remote calls made for it fail.
C4_NoExceptionEscapes == DoTestEnded => ret.kind = "return"

\* C5: when set_script_timeout() fails with an I/O error or an
\* invalid-response error, no worker is started and do_test() returns a
\* CRASH result.
TransportError(e) ==
    IsExc(e) /\ (IsSubclass(e.cls, "IOError")
                 \/ IsSubclass(e.cls, "InvalidResponseException"))
C5_LostConnectionIsCrash ==
    (DoTestEnded /\ TransportError(runs[cur].st_exc)) =>
        /\ runs[cur].wpc = "unstarted"
        /\ ret.kind = "return"
        /\ ret.value.status = "CRASH"

\* C6: when the worker's remote call of a script-harness test ends before
\* the wait does, the result do_test() returns is decided by how the call ended:
\* the converted payload, EXTERNAL-TIMEOUT, CRASH, or ERROR with the error's
\* message and formatted trace.
ExpectedResult(o) ==
    IF ~IsExc(o) THEN convert_result(o)
    ELSE [t |-> "result", subtests |-> <<>>,
          status |-> IF IsSubclass(o.cls, "ScriptTimeoutException") THEN "EXTERNAL-TIMEOUT"
                     ELSE IF TransportError(o) THEN "CRASH" ELSE "ERROR",
          message |-> IF IsSubclass(o.cls, "ScriptTimeoutException") \/ TransportError(o)
                      THEN None ELSE format_message(o)]
C6_ResultFollowsCall ==
    (DoTestEnded /\ executor = "testharness" /\ ret.kind = "return"
                 /\ runs[cur].flag /\ runs[cur].wout # None) =>
        ret = Returned("do_test", ExpectedResult(runs[cur].wout))

\* C7: at most one thread at a time is inside a call on the connection,
\* over the calls that is_alive(), do_test() and their workers make.
CallerCalls ==
    {"current_window_handle", "set_script_timeout", "close", "window_handles_closed",
     "window_handles_opened", "switch_to_window_closed", "inject_script",
     "switch_to_window_opened"}
WorkerCalls ==
    {"execute_script", "execute_async_script", "navigate_url", "wait_script",
     "screenshot"}
InCall ==
    (IF pc \in CallerCalls THEN {0} ELSE {})
        \cup {r \in RunIds : runs[r].wpc \in WorkerCalls}
C7_OneCallAtATime == Cardinality(InCall) <= 1

\* C8: teardown() never raises.
C8_TeardownNeverRaises == ret.op = "teardown" => ret.kind # "raise"

\* C9: is_alive() returns False when the read of current_window_handle
\* failed and True when it did not, never raises, and never answers True
\* unless a client object with a live session was there to answer the read.
C9_IsAliveStep ==
    (ret'.op = "is_alive" /\ ret'.kind = "return" /\ ret' # ret
        /\ ret'.value = PyTrue)
    => (pmarionette = "client" /\ conn = "SessionActive")
C9_IsAlive ==
    /\ [](ret.op = "is_alive" /\ pc = "idle" =>
            /\ ret.kind = "return"
            /\ ret.value = (IF IsExc(ret.probe) THEN PyFalse ELSE PyTrue))
    /\ [][C9_IsAliveStep]_vars
\* is_alive() answered False on a connection that was lost.
C9_Witness ==
    /\ ret.op = "is_alive" /\ pc = "idle"
    /\ pmarionette = "client" /\ conn = "Lost"
    /\ ret.value = PyFalse

\* C10: setup() sends init_succeeded only when the navigation to the runner
\* page succeeded (and the port, the session and the title script did).
C10_HookFailureFails ==
    (pc = "idle" /\ ret.op = "setup" /\ sent = <<"init_succeeded">>)
        => page = "runner"

\* C11: between the calls of the reference-test executor, has_window is True
\* only when a window the driver script opened is open and is the session's
\* current window, whichever remote calls of do_test() failed.
C11_HasWindowTracksWindow ==
    (executor = "reftest" /\ pc = "idle" /\ has_window)
        => (windows > 0 /\ context = "test")

\* C12: the windows the driver script opened and that are still open are at
\* most one at every point, over any sequence of reference tests.
C12_AtMostOneWindow == executor = "reftest" => windows <= 1

\* C13: a teardown() of the WebDriver executor that has ended called
\* driver.stop() when there was a driver object, and ran the base teardown
\* whether or not the stop failed.
C13_BaseTeardownAlwaysRuns ==
    (executor = "webdriver" /\ pc = "idle" /\ ret.op = "webdriver_teardown") =>
        /\ driver.obj # "None" => driver.stop_called
        /\ driver.base_teardown

\* C14: what a run() holds in its result slot, and what do_test() returns
\* from it, was produced by that run's own worker or by that run's own
\* timeout, never by the worker of an earlier run; and every run() starts
\* on a MarionetteRun object in its initial state, whatever happened to the
\* runs before it.
OwnOutcomes(r) ==
    (IF runs[r].recorded_timeout THEN {timeout_outcome} ELSE {})
        \cup (IF runs[r].wout # None
              THEN {_run_result(runs[r].wout, b) : b \in {"class", "instance"}}
              ELSE {})
C14_RunStartsFresh ==
    nruns' # nruns =>
        runs'[nruns'] \in {NewRun(run_timeout(tt)) : tt \in TestTimeouts}
RunReturnedStop ==
    /\ DoTestEnded
    /\ runs[cur].st_exc # None
    /\ run_catches(runs[cur].st_exc.cls)
RunReturned == RunReturnedStop \/ (DoTestEnded /\ ret.kind = "return")

\* C15 as stated: in debug mode (the deadline is None) every return of run()
\* comes after its worker signalled completion.
C15_ReturnsOnlyAfterWorker ==
    (debug_args = "set" /\ RunReturned) => runs[cur].flag

\* C15: in debug mode run() sets the remote script timeout to 2^31 - 1 and
\* waits without a bound; it never records a timeout of its own, and once
\* its worker is started it returns only after the worker signalled
\* completion, with exactly the outcome the worker stored.
C15_DebugWaitsForWorker ==
    debug_args = "set" =>
        /\ pc # "write_timeout"
        /\ \A r \in RunIds :
            /\ runs[r].timeout = NoTimeout
            /\ runs[r].wait_timeout = NoTimeout
            /\ ~runs[r].recorded_timeout
            /\ runs[r].wpc \notin {"unstarted", "collected"}
                    => runs[r].script_timeout = max_script_timeout
        /\ (pc \in {"check_result", "return_result"}
                \/ (DoTestEnded /\ ret.kind = "return")) =>
                    /\ runs[cur].flag
                    /\ runs[cur].result_flag
                    /\ runs[cur].wout # None
        /\ (DoTestEnded /\ ret.kind = "return") =>
                    /\ runs[cur].result = _run_result(runs[cur].wout, irx)
                    /\ ret = run_returns(runs[cur].result)
\* A debug-mode script-harness test returned the payload of its worker.
C15_Witness ==
    /\ debug_args = "set" /\ executor = "testharness"
    /\ DoTestEnded /\ ret.kind = "return"
    /\ runs[cur].script_timeout = max_script_timeout
    /\ runs[cur].wout \in Payloads
    /\ ret = Returned("do_test", convert_result(runs[cur].wout))

\* C16: for every test timeout t and multiplier m (no debug mode), the remote
\* script timeout run() sets is (t*m + 5) seconds in milliseconds and the
\* bound of its wait is t*m + 10 seconds: the remote timeout comes before
\* the end of the wait, by 5 seconds exactly.
C16_RemoteTimeoutBeforeWait ==
    \A r \in RunIds :
        (runs[r].timeout # NoTimeout /\ runs[r].wpc \notin {"unstarted", "collected"}) =>
            LET d == runs[r].timeout IN
            /\ executor = "testharness" =>
                    \E t \in 1..MaxTestTimeout : d = t * timeout_multiplier
            /\ runs[r].script_timeout = (d + 5) * 1000
            /\ runs[r].wait_timeout = d + 10
            /\ runs[r].script_timeout < runs[r].wait_timeout * 1000
            /\ runs[r].wait_timeout * 1000 - runs[r].script_timeout = 5000
\* run() set both bounds for a test of 7 seconds with multiplier 3.
C16_Witness ==
    /\ timeout_multiplier = 3
    /\ pc = "wait" /\ executor = "testharness"
    /\ runs[1].timeout = 21
    /\ runs[1].script_timeout = 26000
    /\ runs[1].wait_timeout = 31

\* C17: a setup() of the WebDriver executor that is running has sent
\* nothing, and one that has returned sent exactly one message: init_failed
\* when driver.start() failed and init_succeeded when it started the process.
C17_StartDecidesMessage ==
    executor = "webdriver" =>
        /\ Len(sent) <= 1
        /\ pc = "driver_start" => sent = <<>>
        /\ driver.obj = "None" => sent = <<>>
        /\ (pc = "idle" /\ ret.op = "webdriver_setup") =>
                /\ ret.kind = "return"
                /\ driver.proc \in {"failed", "running"}
                /\ driver.proc = "failed" => sent = <<"init_failed">>
                /\ driver.proc = "running" => sent = <<"init_succeeded">>
\* driver.start() raised and setup() reported init_failed.
C17_Witness ==
    /\ executor = "webdriver"
    /\ pc = "idle" /\ ret.op = "webdriver_setup"
    /\ driver.proc = "failed"
    /\ sent = <<"init_failed">>

\* C18: the string _screenshot() returns is the captured one without the
\* prefix "data:image/png;base64," when the captured one starts with it, and
\* the captured one unchanged when it does not; what follows the leading
\* prefix is kept piece for piece, later occurrences of the prefix included.
HasDataUriPrefix(pieces) ==
    /\ Len(pieces) >= 2
    /\ pieces[1] = "data:image/png;base64"
    /\ pieces[2] = ","
C18_LeadingPrefixStripped ==
    \A r \in RunIds :
        runs[r].shot # None =>
            LET captured == runs[r].shot.v
                returned == runs[r].wout
            IN /\ returned.t = "str"
               /\ IF HasDataUriPrefix(captured)
                  THEN <<"data:image/png;base64", ",">> \o returned.v = captured
                  ELSE returned.v = captured
\* A screenshot that holds the prefix twice lost the leading one alone.
C18_Witness ==
    /\ runs[1].shot = Str(<<"data:image/png;base64", ",", "data:image/png;base64", ",",
                            "AAAA">>)
    /\ runs[1].wout = Str(<<"data:image/png;base64", ",", "AAAA">>)
    /\ runs[1].result = Tuple2(TRUE, runs[1].wout)

\* C19: the calls one setup() makes come in the order wait_for_port,
\* start_session, post-connect hook: start_session is called only right
\* after a poll that found the port open, and once; the hook (navigate, then
\* execute_script) runs only right after start_session returned; a failed
\* start_session is the last call and init_failed follows; without debug
\* mode there is one poll, and in debug mode every failed poll is followed
\* by another, so that init_failed is never sent for a port that did not open.
CallAt(i) == ret.value[i]
Polled(ok) == [call |-> "wait_for_port", ok |-> ok]
C19_SetupOrder ==
    ret.op = "setup" =>
        LET n == Len(ret.value) IN
        /\ pc \in {"start_session", "navigate", "execute_script_title", "idle"} => n >= 1
        /\ \A i \in 1..n :
            /\ CallAt(i).call \in {"wait_for_port", "start_session", "navigate",
                                   "execute_script"}
            /\ CallAt(i).call = "wait_for_port" =>
                    (i = 1 \/ CallAt(i - 1) = Polled(FALSE))
            /\ CallAt(i).call = "start_session" =>
                    (i > 1 /\ CallAt(i - 1) = Polled(TRUE))
            /\ CallAt(i).call = "navigate" =>
                    (i > 1 /\ CallAt(i - 1) = [call |-> "start_session", ok |-> TRUE])
            /\ CallAt(i).call = "execute_script" =>
                    (i > 1 /\ CallAt(i - 1).call = "navigate")
            /\ CallAt(i) = [call |-> "start_session", ok |-> FALSE] =>
                    (i = n /\ pc = "idle" /\ sent = <<"init_failed">>)
            /\ CallAt(i) = Polled(FALSE) =>
                    IF debug_args = "None"
                    THEN i = n /\ pc = "idle" /\ sent = <<"init_failed">>
                    ELSE i < n \/ pc = "wait_for_port"
        /\ Cardinality({i \in 1..n : CallAt(i).call = "start_session"}) <= 1
        /\ debug_args = "None" =>
                Cardinality({i \in 1..n : CallAt(i).call = "wait_for_port"}) <= 1
        /\ (debug_args = "set" /\ sent = <<"init_failed">>) =>
                \E i \in 1..n : CallAt(i) = Polled(TRUE)
\* In debug mode the port opened at the second poll and start_session failed.
C19_Witness ==
    /\ debug_args = "set"
    /\ pc = "idle" /\ ret.op = "setup" /\ ret.kind = "return"
    /\ ret.value = <<Polled(FALSE), Polled(TRUE), [call |-> "start_session", ok |-> FALSE]>>
    /\ sent = <<"init_failed">>

\* C20: when the caller finds the result slot empty after the wait, the
\* wait did not end because the completion flag was set: the assertion of
\* line 166 holds, the worker having stored a result before it set the flag.
C20_AssertNotFlag ==
    /\ (pc = "check_result" /\ runs[cur].result = None) => ~runs[cur].flag
    /\ \A r \in RunIds : runs[r].result_flag => runs[r].result # None

====
